---- MODULE Spec2Model ----
(***************************************************************************)
(* Model of the poetry-project generator of nx-python                      *)
(* (packages/nx-python/src/generators/poetry-project/generator.ts).        *)
(*                                                                         *)
(* JavaScript objects are functions from key strings to values; a key that *)
(* is absent from the DOMAIN is an undefined property.  A TOML string      *)
(* value of a dependency table is the record [version |-> s]; a path       *)
(* dependency is the record [path |-> root, develop |-> TRUE].             *)
(***************************************************************************)
EXTENDS Integers, Sequences, FiniteSets, TLC

VARIABLES
    pc,                 \* position of the generator run
    options,            \* raw options handed to the generator
    normalizedOptions,  \* result of normalizeOptions
    host,               \* the devkit Tree: registry, files, generated templates
    hostAtStart,        \* the Tree as it was when the run started
    hostBefore,         \* the Tree just before the latest updateRootPyprojectToml
    calls,              \* addTestDependencies calls of the latest application
    callsBefore,        \* addTestDependencies calls of the application before it
    writes,             \* host.write calls of the latest application (paths)
    applications,       \* number of completed updateRootPyprojectToml applications
    error,              \* the exception that ended the run, "" when none
    poetryCalls         \* argument lists handed to runPoetry

vars == <<pc, options, normalizedOptions, host, hostAtStart, hostBefore,
          calls, callsBefore, writes, applications, error, poetryCalls>>

-----------------------------------------------------------------------------
(* Bounds of the model *)

\* existing entries of a drawn dependency table
MaxExisting == 2
\* optional fields a drawn raw options record sets
MaxSetFields == 2
\* applications of updateRootPyprojectToml to the same tree
MaxApplications == 2

-----------------------------------------------------------------------------
(* Objects *)

EmptyObj == [k \in {} |-> TRUE]

Has(o, k) == k \in DOMAIN o

\* o[k] = v
Put(o, k, v) == [x \in DOMAIN o \cup {k} |-> IF x = k THEN v ELSE o[x]]

\* o[k] = undefined, read back as an unset property
Without(o, k) == [x \in DOMAIN o \ {k} |-> o[x]]

\* { ...a, ...b }
Spread(a, b) == [x \in DOMAIN a \cup DOMAIN b |-> IF x \in DOMAIN b THEN b[x] ELSE a[x]]

\* a || {}
OrEmpty(o, k) == IF Has(o, k) THEN o[k] ELSE EmptyObj

Ver(s) == [version |-> s]

PathDep(root) == [path |-> root, develop |-> TRUE]

\* JavaScript truthiness of a dependency value: only the empty string is falsy
TruthyDep(v) == IF "version" \in DOMAIN v THEN v.version # "" ELSE TRUE

\* !dependencies[name]
NotDep(dependencies, name) == ~(Has(dependencies, name) /\ TruthyDep(dependencies[name]))

\* truthiness of option fields
TruthyStr(o, k) == Has(o, k) /\ o[k] # ""
TruthyBool(o, k) == Has(o, k) /\ o[k]
TruthyNum(o, k) == Has(o, k) /\ o[k] # 0
TruthySeq(o, k) == Has(o, k) /\ o[k] # <<>>

RECURSIVE JoinWith(_, _)
JoinWith(seq, sep) ==
    IF seq = <<>> THEN ""
    ELSE IF Len(seq) = 1 THEN seq[1]
    ELSE seq[1] \o sep \o JoinWith(Tail(seq), sep)

-----------------------------------------------------------------------------
(* addTestDependencies *)

\* lines 275-293 only: the rules of the coverage plugins left out
Rules_nocoverage(nopts) ==
    LET py == Has(nopts, "unitTestRunner") /\ nopts.unitTestRunner = "pytest"
    IN  <<[on |-> Has(nopts, "linter") /\ nopts.linter = "flake8",
           name |-> "flake8", version |-> "6.0.0"],
          [on |-> TRUE, name |-> "autopep8", version |-> "2.0.2"],
          [on |-> py, name |-> "pytest", version |-> "7.3.1"],
          [on |-> py, name |-> "pytest-sugar", version |-> "0.9.7"]>>

\* lines 275-310: the rule table, in the order of the code
Rules(nopts) ==
    LET py == Has(nopts, "unitTestRunner") /\ nopts.unitTestRunner = "pytest"
    IN  <<[on |-> Has(nopts, "linter") /\ nopts.linter = "flake8",
           name |-> "flake8", version |-> "6.0.0"],
          [on |-> TRUE, name |-> "autopep8", version |-> "2.0.2"],
          [on |-> py, name |-> "pytest", version |-> "7.3.1"],
          [on |-> py, name |-> "pytest-sugar", version |-> "0.9.7"],
          [on |-> py /\ TruthyBool(nopts, "codeCoverage"),
           name |-> "pytest-cov", version |-> "4.1.0"],
          [on |-> py /\ TruthyBool(nopts, "codeCoverageHtmlReport"),
           name |-> "pytest-html", version |-> "3.2.0"]>>

\* if (rule && !dependencies[name]) dependencies[name] = version
ApplyRule(dependencies, rule) ==
    IF rule.on /\ NotDep(dependencies, rule.name)
    THEN Put(dependencies, rule.name, Ver(rule.version))
    ELSE dependencies

RECURSIVE ApplyRules(_, _)
ApplyRules(dependencies, rules) ==
    IF rules = <<>> THEN dependencies
    ELSE ApplyRules(ApplyRule(dependencies, Head(rules)), Tail(rules))

\* lines 312-315: changed is !_.isEqual(originalDependencies, dependencies)
Reconciled_always(originalDependencies, dependencies) ==
    [input |-> originalDependencies,
     changed |-> TRUE,
     dependencies |-> dependencies]

Reconciled(originalDependencies, dependencies) ==
    [input |-> originalDependencies,
     changed |-> ~(originalDependencies = dependencies),
     dependencies |-> dependencies]

\* the result, with the argument as it was when the call was made
addTestDependencies(dependencies, nopts) ==
    Reconciled(dependencies, ApplyRules(dependencies, Rules(nopts)))

-----------------------------------------------------------------------------
(* Names and paths.  A name or directory option is the sequence of its     *)
(* words; names(x).fileName joins them with dashes.  A path is the         *)
(* sequence of its segments.                                               *)

\* names(x).fileName of @nrwl/devkit
FileName(words) == JoinWith(words, "-")

\* getWorkspaceLayout(tree).appsDir / .libsDir
AppsDir == "apps"
LibsDir == "libs"

PathString(segs) == JoinWith(segs, "/")

RECURSIVE Repeat(_, _)
Repeat(s, n) == IF n = 0 THEN "" ELSE s \o Repeat(s, n - 1)

\* offsetFromRoot(projectRoot) of @nrwl/devkit
offsetFromRoot(segs) == Repeat("../", Len(segs))

RECURSIVE CommonPrefixLen(_, _)
CommonPrefixLen(a, b) ==
    IF a = <<>> \/ b = <<>> \/ a[1] # b[1] THEN 0
    ELSE 1 + CommonPrefixLen(Tail(a), Tail(b))

\* path.relative(from, to)
Relative(from, to) ==
    LET n == CommonPrefixLen(from, to)
        ups == [i \in 1..(Len(from) - n) |-> ".."]
    IN  PathString(ups \o SubSeq(to, n + 1, Len(to)))

RootManifestPath == "pyproject.toml"

\* path.join(projectConfig.root, 'pyproject.toml')
ManifestPathOf(rootSegs) == PathString(rootSegs \o <<"pyproject.toml">>)

\* tree.exists(path)
Exists(tree, path) == path \in DOMAIN tree.files

-----------------------------------------------------------------------------
(* normalizeOptions *)

\* readProjectConfiguration throws when the project is not registered
normalizeOptionsThrows(tree, opts) ==
    TruthyStr(opts, "devDependenciesProject")
        /\ opts.devDependenciesProject \notin DOMAIN tree.projects

\* options.tags.split(',').map((s) => s.trim())
ParsedTags(opts) ==
    IF TruthySeq(opts, "tags")
    THEN [i \in 1..Len(opts.tags) |-> opts.tags[i].text]
    ELSE <<>>

ProjectDirectorySegs(opts) ==
    IF TruthySeq(opts, "directory")
    THEN <<FileName(opts.directory), FileName(opts.name)>>
    ELSE <<FileName(opts.name)>>

ProjectRootSegs(opts) ==
    <<IF Has(opts, "projectType") /\ opts.projectType = "application"
      THEN AppsDir ELSE LibsDir>> \o ProjectDirectorySegs(opts)

PythonAddoptsArgs(opts) ==
    LET rootSegs == ProjectRootSegs(opts)
        offset == offsetFromRoot(rootSegs)
        projectRoot == PathString(rootSegs)
        a1 == IF TruthyBool(opts, "codeCoverage") THEN <<"--cov">> ELSE <<>>
        a2 == IF TruthyNum(opts, "codeCoverageThreshold")
              THEN <<"--cov-fail-under=" \o ToString(opts.codeCoverageThreshold)>>
              ELSE <<>>
        a3 == IF TruthyBool(opts, "codeCoverage") /\ TruthyBool(opts, "codeCoverageHtmlReport")
              THEN <<"--cov-report html:'" \o offset \o "coverage/" \o projectRoot \o "/html'">>
              ELSE <<>>
        a4 == IF TruthyBool(opts, "codeCoverage") /\ TruthyBool(opts, "codeCoverageXmlReport")
              THEN <<"--cov-report xml:'" \o offset \o "coverage/" \o projectRoot
                        \o "/coverage.xml'">>
              ELSE <<>>
        a5 == IF TruthyBool(opts, "unitTestHtmlReport")
              THEN <<"--html='" \o offset \o "reports/" \o projectRoot
                        \o "/unittests/html/index.html'">>
              ELSE <<>>
        a6 == IF TruthyBool(opts, "unitTestJUnitReport")
              THEN <<"--junitxml='" \o offset \o "reports/" \o projectRoot
                        \o "/unittests/junit.xml'">>
              ELSE <<>>
    IN  a1 \o a2 \o a3 \o a4 \o a5 \o a6

\* lines 119-126: the hard override when the test runner is 'none'
ForceNoTests(o) ==
    Without(
        Put(Put(Put(Put(Put(o, "unitTestHtmlReport", FALSE),
                        "unitTestJUnitReport", FALSE),
                    "codeCoverage", FALSE),
                "codeCoverageHtmlReport", FALSE),
            "codeCoverageXmlReport", FALSE),
        "codeCoverageThreshold")

\* lines 53-71: a default is assigned when the option is falsy
DefaultStr_always(o, k, v) == Put(o, k, v)

DefaultStr(o, k, v) == IF TruthyStr(o, k) THEN o ELSE Put(o, k, v)

normalizeOptions(tree, opts) ==
    LET projectDirectorySegs == ProjectDirectorySegs(opts)
        projectName == JoinWith(projectDirectorySegs, "-")
        rootSegs == ProjectRootSegs(opts)
        words == (IF TruthySeq(opts, "directory") THEN opts.directory ELSE <<>>)
                    \o opts.name
        n0 == opts
        n1 == DefaultStr(n0, "pyprojectPythonDependency", ">=3.9,<3.11")
        n2 == DefaultStr(n1, "pyenvPythonVersion", "3.9.5")
        n3 == DefaultStr(n2, "moduleName", JoinWith(words, "_"))
        n4 == DefaultStr(n3, "packageName", projectName)
        n5 == DefaultStr(n4, "description", "Automatically generated by Nx.")
        n6 == IF TruthyStr(opts, "devDependenciesProject")
              THEN Put(n5, "devDependenciesProjectPath",
                       Relative(rootSegs, tree.projects[opts.devDependenciesProject].root))
              ELSE n5
        n7 == IF Has(opts, "unitTestRunner") /\ opts.unitTestRunner = "none"
              THEN ForceNoTests(n6) ELSE n6
        computed ==
            [devDependenciesProject |->
                IF TruthyStr(opts, "devDependenciesProject")
                THEN opts.devDependenciesProject ELSE "",
             individualPackage |-> ~Exists(tree, RootManifestPath),
             projectName |-> projectName,
             projectRoot |-> PathString(rootSegs),
             projectDirectory |-> PathString(projectDirectorySegs),
             parsedTags |-> ParsedTags(opts)]
        addopts ==
            IF Has(opts, "unitTestRunner") /\ opts.unitTestRunner = "pytest"
            THEN [pythonAddopts |-> JoinWith(PythonAddoptsArgs(opts), " ")]
            ELSE EmptyObj
    \* newOptions is a clone of options, so { ...options, ...newOptions } is
    \* newOptions, the undefined codeCoverageThreshold included
    IN  Spread(Spread(n7, computed), addopts)


-----------------------------------------------------------------------------
(* The Tree.  host.projects is the project registry, host.files maps a     *)
(* path to its text, host.generated holds the template folders written     *)
(* under a project root.  A text is [parses, toml]: toml is the            *)
(* tool.poetry table the text parses to, when it parses.                   *)

\* stringify(doc) of @iarna/toml
stringify(poetry) == [parses |-> TRUE, toml |-> poetry]

\* parse(host.read(path)) throws on a text that is no TOML
ParseThrows(tree, path) == ~Exists(tree, path) \/ ~tree.files[path].parses

\* parse(host.read(path))
parse(tree, path) == tree.files[path].toml

\* host.write(path, text)
Write(tree, path, text) == [tree EXCEPT !.files = Put(tree.files, path, text)]

-----------------------------------------------------------------------------
(* updateRootPyprojectToml *)

\* lines 203-215: the reconciled dependencies are written only when changed
WriteIfChanged(tree, path, doc, r) ==
    IF r.changed
    THEN [host |-> Write(tree, path,
                         stringify(Put(doc, "dependencies",
                                       Spread(r.dependencies, r.dependencies)))),
          failed |-> FALSE, calls |-> <<r>>, writes |-> <<path>>]
    ELSE [host |-> tree, failed |-> FALSE, calls |-> <<r>>, writes |-> <<>>]

\* lines 199-215
UpdateManifestAt(tree, path, nopts) ==
    IF ParseThrows(tree, path)
    THEN [host |-> tree, failed |-> TRUE, calls |-> <<>>, writes |-> <<>>]
    ELSE WriteIfChanged(tree, path, parse(tree, path),
                        addTestDependencies(parse(tree, path).dependencies, nopts))

\* lines 189-216: the shared dev-dependency project's manifest
UpdateDevDependenciesProject(tree, nopts) ==
    IF ~TruthyStr(nopts, "devDependenciesProject")
    THEN [host |-> tree, failed |-> FALSE, calls |-> <<>>, writes |-> <<>>]
    ELSE UpdateManifestAt(
            tree, ManifestPathOf(tree.projects[nopts.devDependenciesProject].root), nopts)

\* line 223: normalizedOptions.rootPyprojectDependencyGroup ?? 'main'
GroupOf(nopts) ==
    IF Has(nopts, "rootPyprojectDependencyGroup")
    THEN nopts.rootPyprojectDependencyGroup ELSE "main"

\* rootPyprojectToml.tool.poetry.group?.[name]
GroupNamed(poetry, name) == OrEmpty(OrEmpty(poetry, "group"), name)

\* rootPyprojectToml.tool.poetry.group?.[name]?.dependencies || {}
GroupDependencies(poetry, name) == OrEmpty(GroupNamed(poetry, name), "dependencies")

\* lines 233-246: { ...group, [name]: table }
WithGroup(poetry, name, table) ==
    Put(poetry, "group", Spread(OrEmpty(poetry, "group"), Put(EmptyObj, name, table)))

\* lines 223-247: the path dependency of the new project
RegisterPathDependency(poetry, nopts) ==
    IF GroupOf(nopts) = "main"
    THEN Put(poetry, "dependencies",
             Put(poetry.dependencies, nopts.packageName, PathDep(nopts.projectRoot)))
    ELSE WithGroup(poetry, GroupOf(nopts),
                   Spread(GroupNamed(poetry, GroupOf(nopts)),
                          [dependencies |->
                                Put(GroupDependencies(poetry, GroupOf(nopts)),
                                    nopts.packageName, PathDep(nopts.projectRoot))]))

\* lines 255-262 storing the clone taken before the rules ran
ReplaceDevGroup_original(poetry, r) ==
    [poetry |-> IF r.changed
                THEN WithGroup(poetry, "dev", [dependencies |-> r.input])
                ELSE poetry,
     calls |-> <<r>>]

\* lines 255-262: the dependencies table is mutated in place, and it is taken
\* out of the document only when it changed, so the document changes only then
ReplaceDevGroup(poetry, r) ==
    [poetry |-> IF r.changed
                THEN WithGroup(poetry, "dev", [dependencies |-> r.dependencies])
                ELSE poetry,
     calls |-> <<r>>]

\* lines 249-263 with the guard dropped
MergeDevDependencies_always(poetry, nopts) ==
    ReplaceDevGroup(poetry, addTestDependencies(GroupDependencies(poetry, "dev"), nopts))

\* lines 249-263: the test dependencies of the root manifest's dev group
MergeDevDependencies(poetry, nopts) ==
    IF TruthyStr(nopts, "devDependenciesProject")
    THEN [poetry |-> poetry, calls |-> <<>>]
    ELSE ReplaceDevGroup(poetry,
                         addTestDependencies(GroupDependencies(poetry, "dev"), nopts))

\* line 265: the root manifest is written whether or not it changed
WriteRoot(tree, merged) ==
    [host |-> Write(tree, RootManifestPath, stringify(merged.poetry)),
     failed |-> FALSE, calls |-> merged.calls, writes |-> <<RootManifestPath>>]

\* lines 218-266: the root manifest
UpdateRootManifest(tree, nopts) ==
    IF nopts.individualPackage
    THEN [host |-> tree, failed |-> FALSE, calls |-> <<>>, writes |-> <<>>]
    ELSE IF ParseThrows(tree, RootManifestPath)
    THEN [host |-> tree, failed |-> TRUE, calls |-> <<>>, writes |-> <<>>]
    ELSE WriteRoot(tree,
                   MergeDevDependencies(
                        RegisterPathDependency(parse(tree, RootManifestPath), nopts),
                        nopts))

\* the second branch runs on the tree the first one left, unless that one threw
Then(first, second) ==
    [host |-> second.host, failed |-> second.failed,
     calls |-> first.calls \o second.calls,
     writes |-> first.writes \o second.writes]

AfterFirst(first, nopts) ==
    IF first.failed THEN first
    ELSE Then(first, UpdateRootManifest(first.host, nopts))

updateRootPyprojectToml(tree, nopts) ==
    AfterFirst(UpdateDevDependenciesProject(tree, nopts), nopts)

-----
(* updateRootPoetryLock *)

updateRootPoetryLock_unguarded(tree, nopts) == <<<<"update", nopts.packageName>>>>

\* the runPoetry calls the callback makes
updateRootPoetryLock(tree, nopts) ==
    IF Exists(tree, RootManifestPath)
    THEN <<<<"update", nopts.packageName>>>>
    ELSE <<>>


-----------------------------------------------------------------------------
(* The generator (the default export) *)

\* lines 335-401: the names of the targets attached to the project
Targets(opts) ==
    {"lock", "add", "update", "remove", "build", "install"}
        \cup (IF Has(opts, "linter") /\ opts.linter = "flake8" THEN {"lint"} ELSE {})
        \cup (IF Has(opts, "unitTestRunner") /\ opts.unitTestRunner = "pytest"
              THEN {"test"} ELSE {})

\* the template folders addFiles generates under the project root
TemplateFolders(nopts) ==
    IF TruthyStr(nopts, "templateDir")
    THEN {nopts.templateDir}
    ELSE {"files/base"}
            \cup (IF Has(nopts, "unitTestRunner") /\ nopts.unitTestRunner = "pytest"
                  THEN {"files/pytest"} ELSE {})
            \cup (IF Has(nopts, "linter") /\ nopts.linter = "flake8"
                  THEN {"files/flake8"} ELSE {})

\* line 333: normalizeOptions, which throws on an unregistered shared project
NormalizeOptions(Opts) ==
    /\ pc = "idle"
    /\ \E o \in Opts :
        /\ options' = o
        /\ IF normalizeOptionsThrows(host, o)
           THEN /\ pc' = "failed"
                /\ error' = "NotFoundError"
                /\ UNCHANGED normalizedOptions
           ELSE /\ pc' = "normalized"
                /\ normalizedOptions' = normalizeOptions(host, o)
                /\ UNCHANGED error
    /\ UNCHANGED <<host, hostAtStart, hostBefore, calls, callsBefore, writes, applications,
                   poetryCalls>>

\* lines 403-409; the names drawn are not registered yet
AddProjectConfiguration ==
    /\ pc = "normalized"
    /\ host' = [host EXCEPT !.projects =
                    Put(@, normalizedOptions.projectName,
                        [root |-> ProjectRootSegs(options),
                         targets |-> Targets(options),
                         tags |-> normalizedOptions.parsedTags])]
    /\ pc' = "registered"
    /\ UNCHANGED <<options, normalizedOptions, hostAtStart, hostBefore, calls, callsBefore,
                   writes, applications, error, poetryCalls>>

\* line 410
AddFiles ==
    /\ pc = "registered"
    /\ host' = [host EXCEPT !.generated =
                    @ \cup {<<normalizedOptions.projectRoot, f>> :
                                f \in TemplateFolders(normalizedOptions)}]
    /\ pc' = "files"
    /\ UNCHANGED <<options, normalizedOptions, hostAtStart, hostBefore, calls, callsBefore,
                   writes, applications, error, poetryCalls>>

Applied(r, next) ==
    /\ hostBefore' = host
    /\ host' = r.host
    /\ calls' = r.calls
    /\ callsBefore' = calls
    /\ writes' = r.writes
    /\ IF r.failed
       THEN /\ pc' = "failed"
            /\ error' = "ManifestParseError"
            /\ UNCHANGED applications
       ELSE /\ pc' = next
            /\ applications' = applications + 1
            /\ UNCHANGED error
    /\ UNCHANGED <<options, normalizedOptions, hostAtStart, poetryCalls>>

ApplyUpdate(next) == Applied(updateRootPyprojectToml(host, normalizedOptions), next)

\* line 411
UpdateRootPyprojectToml ==
    /\ pc = "files"
    /\ ApplyUpdate("updated")

\* the manifest step of a further run with the same inputs on the same tree
UpdateRootPyprojectTomlAgain ==
    /\ pc = "updated"
    /\ applications < MaxApplications
    /\ ApplyUpdate("updated")

\* lines 412-416: formatFiles, then the callback is returned
FormatFiles ==
    /\ pc = "updated"
    /\ pc' = "returned"
    /\ UNCHANGED <<options, normalizedOptions, host, hostAtStart, hostBefore,
                   calls, callsBefore, writes, applications, error, poetryCalls>>

\* lines 414-416: the caller invokes the returned callback; runPoetry may fail
Callback ==
    /\ pc = "returned"
    /\ LET run == updateRootPoetryLock(host, normalizedOptions)
       IN  /\ poetryCalls' = poetryCalls \o run
           /\ \E failed \in (IF run = <<>> THEN {FALSE} ELSE BOOLEAN) :
                error' = IF failed THEN "ExternalToolError" ELSE ""
    /\ pc' = "done"
    /\ UNCHANGED <<options, normalizedOptions, host, hostAtStart, hostBefore,
                   calls, callsBefore, writes, applications>>

Run ==
    \/ AddProjectConfiguration
    \/ AddFiles
    \/ UpdateRootPyprojectToml
    \/ UpdateRootPyprojectTomlAgain
    \/ FormatFiles
    \/ Callback

-----------------------------------------------------------------------------
(* Drawn inputs *)

SharedProject == [root |-> <<"libs", "shared">>, targets |-> {"install"}, tags |-> <<>>]

SharedManifestPath == ManifestPathOf(SharedProject.root)

Unparseable == [parses |-> FALSE, toml |-> EmptyObj]

\* all objects that set at most n of the keys of the sequence, from index i on
RECURSIVE Objects(_, _, _, _)
Objects(keys, values, i, n) ==
    IF i > Len(keys) THEN {EmptyObj}
    ELSE Objects(keys, values, i + 1, n)
            \cup (IF n = 0 THEN {}
                  ELSE {Put(o, keys[i], v) :
                            o \in Objects(keys, values, i + 1, n - 1),
                            v \in values[keys[i]]})

StartAt(h) ==
    /\ pc = "idle"
    /\ options = EmptyObj
    /\ normalizedOptions = EmptyObj
    /\ host = h
    /\ hostAtStart = h
    /\ hostBefore = h
    /\ calls = <<>>
    /\ callsBefore = <<>>
    /\ writes = <<>>
    /\ applications = 0
    /\ error = ""
    /\ poetryCalls = <<>>

(* Generation runs on workspaces with varied manifest structure *)

FullDevDependencies ==
    [n \in {"flake8", "autopep8", "pytest", "pytest-sugar", "pytest-cov", "pytest-html"}
        |-> Ver("1.0.0")]

GenDevGroups ==
    {EmptyObj,
     [optional |-> TRUE],
     [dependencies |-> [flake8 |-> Ver(""), black |-> Ver("23.1.0")]],
     [optional |-> TRUE, dependencies |-> [black |-> Ver("23.1.0")]],
     [optional |-> TRUE, dependencies |-> FullDevDependencies]}

GenBuildGroups ==
    {EmptyObj,
     [optional |-> TRUE, dependencies |-> [cython |-> Ver("^3.0")]]}

GenMainDependencies ==
    {[python |-> Ver("^3.9")],
     [python |-> Ver("^3.9"), svc |-> Ver("^1.0")]}

\* a group table holds the groups that have any key
GroupTable(dev, build) ==
    Spread(IF dev = EmptyObj THEN EmptyObj ELSE [dev |-> dev],
           IF build = EmptyObj THEN EmptyObj ELSE [build |-> build])

GenRootManifests ==
    {stringify(IF GroupTable(dev, build) = EmptyObj
               THEN [dependencies |-> main]
               ELSE [dependencies |-> main, group |-> GroupTable(dev, build)]) :
        main \in GenMainDependencies, dev \in GenDevGroups, build \in GenBuildGroups}

GenSharedManifests ==
    {Unparseable,
     stringify([dependencies |-> [python |-> Ver("^3.9"), pytest |-> Ver("")]])}

Hosts(rootManifests, sharedManifests, withoutRoot, withoutShared) ==
    LET roots == {[pyproject |-> r] : r \in rootManifests}
                    \cup (IF withoutRoot THEN {EmptyObj} ELSE {})
        shareds == {[projects |-> [shared |-> SharedProject], manifest |-> [m |-> m]] :
                        m \in sharedManifests}
                    \cup (IF withoutShared
                          THEN {[projects |-> EmptyObj, manifest |-> EmptyObj]} ELSE {})
    IN  {[projects |-> s.projects,
          files |-> Spread(IF Has(r, "pyproject")
                           THEN Put(EmptyObj, RootManifestPath, r.pyproject)
                           ELSE EmptyObj,
                           IF Has(s.manifest, "m")
                           THEN Put(EmptyObj, SharedManifestPath, s.manifest.m)
                           ELSE EmptyObj),
          generated |-> {}] : r \in roots, s \in shareds}

GenHosts == Hosts(GenRootManifests \cup {Unparseable}, GenSharedManifests, TRUE, TRUE)

GenFields ==
    <<"linter", "unitTestRunner", "codeCoverage", "codeCoverageHtmlReport",
      "devDependenciesProject", "rootPyprojectDependencyGroup">>

OptionValues(field) ==
    CASE field = "directory" -> {<<"team">>}
      [] field = "projectType" -> {"application", "library"}
      [] field = "templateDir" -> {"tools/templates"}
      [] field = "linter" -> {"flake8", "none"}
      [] field = "unitTestRunner" -> {"pytest", "none"}
      [] field = "codeCoverage" -> {TRUE, FALSE}
      [] field = "codeCoverageThreshold" -> {0, 80}
      [] field = "codeCoverageHtmlReport" -> {TRUE, FALSE}
      [] field = "codeCoverageXmlReport" -> {TRUE}
      [] field = "unitTestHtmlReport" -> {TRUE}
      [] field = "unitTestJUnitReport" -> {TRUE}
      [] field = "publishable" -> {TRUE}
      [] field = "buildLockedVersions" -> {TRUE}
      [] field = "buildBundleLocalDependencies" -> {FALSE}
      [] field = "devDependenciesProject" -> {"shared", "ghost", ""}
      [] field = "rootPyprojectDependencyGroup" -> {"dev", "build"}
      [] field = "tags" -> {<<[lead |-> FALSE, text |-> "scope:py"],
                               [lead |-> TRUE, text |-> "type:lib"]>>}
      [] field = "pyprojectPythonDependency" -> {"^3.10", ""}
      [] field = "pyenvPythonVersion" -> {"3.10.1"}
      [] field = "moduleName" -> {"acme_svc"}
      [] field = "packageName" -> {"acme-svc"}
      [] field = "description" -> {"My service", ""}

GenOptionValues(field) ==
    CASE field = "linter" -> {"flake8", "none"}
      [] field = "unitTestRunner" -> {"pytest", "none"}
      [] field = "codeCoverage" -> {TRUE}
      [] field = "codeCoverageHtmlReport" -> {TRUE}
      [] field = "devDependenciesProject" -> {"shared"}
      [] field = "rootPyprojectDependencyGroup" -> {"dev", "build"}

WithName(objects) == {Put(o, "name", <<"svc">>) : o \in objects}

\* linter and test runner set, the other fields set or not
GenOptions ==
    {o \in WithName(Objects(GenFields,
                            [f \in {GenFields[i] : i \in 1..Len(GenFields)}
                                |-> GenOptionValues(f)],
                            1, Len(GenFields))) :
        Has(o, "linter") /\ Has(o, "unitTestRunner")}

Init == \E h \in GenHosts : StartAt(h)

Next == NormalizeOptions(GenOptions) \/ Run

Spec == Init /\ [][Next]_vars


(* Reconciliation of drawn dependency tables: the root manifest's dev group *)
(* and the shared project's manifest hold the drawn table                   *)

TestDependencyNames ==
    <<"flake8", "autopep8", "pytest", "pytest-sugar", "pytest-cov", "pytest-html">>

DrawnNames == TestDependencyNames \o <<"black">>

\* a drawn entry is pinned to another version, or holds the empty string
DependencyTables ==
    Objects(DrawnNames,
            [n \in {DrawnNames[i] : i \in 1..Len(DrawnNames)} |-> {Ver("1.0.0"), Ver("")}],
            1, MaxExisting)

RecHosts ==
    UNION {Hosts({stringify([dependencies |-> [python |-> Ver("^3.9")],
                             group |-> [dev |-> [dependencies |-> d]]])},
                 {stringify([dependencies |-> d])}, FALSE, FALSE) :
            d \in DependencyTables}

RecOptions == {o \in GenOptions : ~Has(o, "rootPyprojectDependencyGroup")}

InitReconcile == \E h \in RecHosts : StartAt(h)

NextReconcile == NormalizeOptions(RecOptions) \/ Run

SpecReconcile == InitReconcile /\ [][NextReconcile]_vars

(* Normalization of drawn raw options *)

RawFields ==
    <<"directory", "projectType", "templateDir", "linter", "unitTestRunner",
      "codeCoverage", "codeCoverageThreshold", "codeCoverageHtmlReport",
      "codeCoverageXmlReport", "unitTestHtmlReport", "unitTestJUnitReport",
      "publishable", "buildLockedVersions", "buildBundleLocalDependencies",
      "devDependenciesProject", "rootPyprojectDependencyGroup", "tags",
      "pyprojectPythonDependency", "pyenvPythonVersion", "moduleName",
      "packageName", "description">>

RawOptions ==
    WithName(Objects(RawFields,
                     [f \in {RawFields[i] : i \in 1..Len(RawFields)} |-> OptionValues(f)],
                     1, MaxSetFields))

NormHosts ==
    Hosts({stringify([dependencies |-> [python |-> Ver("^3.9")]])},
          {stringify([dependencies |-> [python |-> Ver("^3.9")]])}, TRUE, FALSE)

InitNormalize == \E h \in NormHosts : StartAt(h)

NextNormalize == NormalizeOptions(RawOptions)

SpecNormalize == InitNormalize /\ [][NextNormalize]_vars


-----------------------------------------------------------------------------
(* State functions the properties are stated with *)

\* the root manifest before and after the latest application
RootBefore == parse(hostBefore, RootManifestPath)
RootAfter == parse(host, RootManifestPath)

\* the latest application read and wrote the root manifest
RootUpdated == applications >= 1 /\ ~normalizedOptions.individualPackage

SharedNamed == TruthyStr(normalizedOptions, "devDependenciesProject")

SharedBefore == parse(hostBefore, SharedManifestPath)
SharedAfter == parse(host, SharedManifestPath)

\* the dependency table of a group, the main group's being tool.poetry.dependencies
DependenciesOf(poetry, g) ==
    IF g = "main" THEN poetry.dependencies ELSE GroupDependencies(poetry, g)

PathEntry == PathDep(normalizedOptions.projectRoot)

\* the names the rule table of the specification gates, for a descriptor
GatedNames(nopts) ==
    (IF Has(nopts, "linter") /\ nopts.linter = "flake8" THEN {"flake8"} ELSE {})
        \cup {"autopep8"}
        \cup (IF Has(nopts, "unitTestRunner") /\ nopts.unitTestRunner = "pytest"
              THEN {"pytest", "pytest-sugar"}
                    \cup (IF TruthyBool(nopts, "codeCoverage") THEN {"pytest-cov"} ELSE {})
                    \cup (IF TruthyBool(nopts, "codeCoverageHtmlReport")
                          THEN {"pytest-html"} ELSE {})
              ELSE {})

\* Scenario B: a root manifest, no shared project, flake8, pytest, coverage
ScenarioB ==
    /\ applications >= 1
    /\ ~normalizedOptions.individualPackage
    /\ ~SharedNamed
    /\ Has(normalizedOptions, "linter") /\ normalizedOptions.linter = "flake8"
    /\ Has(normalizedOptions, "unitTestRunner")
    /\ normalizedOptions.unitTestRunner = "pytest"
    /\ TruthyBool(normalizedOptions, "codeCoverage")

CoverageToggles ==
    {"unitTestHtmlReport", "unitTestJUnitReport", "codeCoverage",
     "codeCoverageHtmlReport", "codeCoverageXmlReport", "codeCoverageThreshold"}

DefaultedFields ==
    {"pyprojectPythonDependency", "pyenvPythonVersion", "moduleName", "packageName",
     "description"}

-----------------------------------------------------------------------------
(* Properties *)

\* C1: the mapping addTestDependencies returns holds every key of its argument
\* with the value it had there; no key is removed or altered.
C1_NonDestructiveUnion ==
    \A i \in 1..Len(calls) :
        \A k \in DOMAIN calls[i].input :
            /\ Has(calls[i].dependencies, k)
            /\ calls[i].dependencies[k] = calls[i].input[k]

\* C2: in the root manifest every group other than the ones dependencies are
\* added to keeps its full content, and a touched group (the named group, and
\* the dev group when test dependencies are merged into the root manifest)
\* keeps every key other than its dependencies.
C2_GroupIsolation ==
    RootUpdated =>
        LET before == OrEmpty(RootBefore, "group")
            after == OrEmpty(RootAfter, "group")
            touched == {GroupOf(normalizedOptions)}
                            \cup (IF SharedNamed THEN {} ELSE {"dev"})
        IN  \A g \in DOMAIN before :
                /\ Has(after, g)
                /\ IF g \in touched
                   THEN \A k \in DOMAIN before[g] \ {"dependencies"} :
                            Has(after[g], k) /\ after[g][k] = before[g][k]
                   ELSE after[g] = before[g]

\* C3, as claimed: in Scenario B a second application with the same inputs
\* finds the reconciler reporting changed = false and does not write the root
\* manifest again.
C3_NoSecondWrite ==
    (ScenarioB /\ applications >= 2) =>
        /\ \A i \in 1..Len(calls) : ~calls[i].changed
        /\ \A j \in 1..Len(writes) : writes[j] # RootManifestPath

\* C3, amended: in Scenario B a second application with the same inputs finds
\* the reconciler reporting changed = false; the root manifest is written once
\* more, with the content the first application left.
C3_SecondWriteIdentical ==
    (ScenarioB /\ applications >= 2) =>
        /\ Len(calls) = 1
        /\ ~calls[1].changed
        /\ writes = <<RootManifestPath>>
        /\ host = hostBefore

C3_Witness ==
    /\ ScenarioB
    /\ applications = 2
    /\ Len(callsBefore) = 1
    /\ callsBefore[1].changed
    /\ Len(calls) = 1

\* C4, as claimed: with a shared dev-dependency project named and a root
\* manifest present, the root manifest's dev group is the same before and after
\* for every rootPyprojectDependencyGroup, and the reconciled dependencies are
\* in the shared project's manifest.
C4_DevGroupUntouched ==
    (SharedNamed /\ RootUpdated) =>
        /\ GroupNamed(RootAfter, "dev") = GroupNamed(RootBefore, "dev")
        /\ Len(calls) = 1
        /\ SharedAfter.dependencies = calls[1].dependencies

\* C4, amended: with a shared dev-dependency project named and a root manifest
\* present, the root manifest's dev group is the same before and after unless
\* rootPyprojectDependencyGroup is "dev", and then it differs only by the path
\* dependency under packageName; apart from that entry of the named group no
\* dependency table of the root manifest changes, and the reconciled
\* dependencies are those of the shared project's manifest.
C4_DevGroupOnlyPathDependency ==
    (SharedNamed /\ RootUpdated) =>
        LET g == GroupOf(normalizedOptions)
            pkg == normalizedOptions.packageName
            groups == {"main"} \cup DOMAIN OrEmpty(RootBefore, "group")
                        \cup DOMAIN OrEmpty(RootAfter, "group")
        IN  /\ g # "dev" =>
                /\ Has(OrEmpty(RootAfter, "group"), "dev")
                        = Has(OrEmpty(RootBefore, "group"), "dev")
                /\ GroupNamed(RootAfter, "dev") = GroupNamed(RootBefore, "dev")
            /\ g = "dev" =>
                GroupNamed(RootAfter, "dev")
                    = Spread(GroupNamed(RootBefore, "dev"),
                             [dependencies |->
                                Put(GroupDependencies(RootBefore, "dev"), pkg, PathEntry)])
            /\ \A x \in groups :
                \A k \in (DOMAIN DependenciesOf(RootBefore, x)
                            \cup DOMAIN DependenciesOf(RootAfter, x)) \ {pkg} :
                    /\ Has(DependenciesOf(RootBefore, x), k)
                    /\ Has(DependenciesOf(RootAfter, x), k)
                    /\ DependenciesOf(RootAfter, x)[k] = DependenciesOf(RootBefore, x)[k]
            /\ Len(calls) = 1
            /\ calls[1].input = SharedBefore.dependencies
            /\ SharedAfter.dependencies = calls[1].dependencies

C4_Witness ==
    /\ SharedNamed
    /\ RootUpdated
    /\ applications = 1
    /\ GroupOf(normalizedOptions) = "dev"
    /\ Len(calls) = 1
    /\ calls[1].changed
    /\ Has(GroupNamed(RootBefore, "dev"), "optional")

\* C5: after a run on a workspace with a root manifest the group named by
\* rootPyprojectDependencyGroup (default main) holds packageName as a path
\* dependency on the project root, the group exists, and every entry the group
\* had before the run under another name is still there with its previous
\* value.
C5_PathDependencyRegistered ==
    RootUpdated =>
        LET g == GroupOf(normalizedOptions)
            before == DependenciesOf(RootBefore, g)
            after == DependenciesOf(RootAfter, g)
        IN  /\ Has(after, normalizedOptions.packageName)
            /\ after[normalizedOptions.packageName] = PathEntry
            /\ g # "main" => Has(OrEmpty(RootAfter, "group"), g)
            /\ \A k \in DOMAIN before \ {normalizedOptions.packageName} :
                    Has(after, k) /\ after[k] = before[k]

C7_CommitThenRefresh ==
    /\ pc # "done" => poetryCalls = <<>>
    /\ (pc = "done" /\ ~Exists(host, RootManifestPath)) => poetryCalls = <<>>
    /\ poetryCalls # <<>> =>
        /\ poetryCalls = <<<<"update", normalizedOptions.packageName>>>>
        /\ Has(host.projects, normalizedOptions.projectName)
        /\ <<normalizedOptions.projectRoot, "files/base">> \in host.generated
        /\ applications >= 1
        /\ RootManifestPath \in {writes[j] : j \in 1..Len(writes)}
        /\ Has(DependenciesOf(RootAfter, GroupOf(normalizedOptions)),
               normalizedOptions.packageName)

C7_Witness ==
    /\ pc = "done"
    /\ poetryCalls # <<>>
    /\ Len(writes) = 2

\* C8: when a manifest fails to parse the tree is as it was when the run
\* started: no project registered, no template written, no manifest written.
C8_NoPartialWrite ==
    error = "ManifestParseError" => host = hostAtStart

C10_Idempotent ==
    applications >= 2 =>
        \A i \in 1..Len(calls) :
            (i <= Len(callsBefore) /\ calls[i].input = callsBefore[i].dependencies)
                => /\ ~calls[i].changed
                   /\ calls[i].dependencies = calls[i].input

C10_Witness ==
    /\ applications = 2
    /\ Len(calls) = 1
    /\ Len(callsBefore) = 1
    /\ callsBefore[1].changed
    /\ calls[1].input = callsBefore[1].dependencies
    /\ Has(callsBefore[1].input, "pytest")


====
